---- MODULE Spec2Model ----
(***************************************************************************)
(* dep11/utils.py: str_enc_dec(val), "Handles encoding decoding for        *)
(* localised values" under Python 2.7 (the file's own comment: "for        *)
(* python2.7 not required for python3").                                   *)
(*                                                                         *)
(* Python values are records [kind, data]:                                 *)
(*   kind = "str"      a Python 2 byte string, data = its bytes            *)
(*   kind = "unicode"  a Python 2 text, data = its code points             *)
(*   kind = "int"      an integer, data = <<n>>                            *)
(*   kind = "object"   any other object, data = <<id>>; what its __str__   *)
(*                     does is ObjStr(id)                                  *)
(* The outcome of a builtin is a record [exc, val]: exc = "none" and the   *)
(* value, or the name of the exception raised.                             *)
(*                                                                         *)
(* unicode() and str() are modelled as CPython 2.7 runs them: the UTF-8     *)
(* decoder of 2.7.4 and later (one U+FFFD per maximal invalid prefix), the *)
(* default codec "ascii", a text as a sequence of code points (UCS4 build).*)
(***************************************************************************)
EXTENDS Integers, Sequences, FiniteSets

\* ---------------------------------------------------------------- bounds
\* longest byte string / text drawn as an input
MaxLen == 3
\* number of concurrent callers of SpecConc
NumCallers == 2
\* code points the reference encoder ranges over (covers 1..3 byte forms)
MaxCodePoint == 12287

\* U+FFFD, what errors='replace' substitutes when decoding
REPLACEMENT == 65533

\* bytes the inputs are drawn from: 'A', the UTF-8 of U+00E9 (C3 A9), the
\* UTF-8 of U+20AC (E2 82 AC), and the never-valid bytes FF and FE
ByteSet == {65, 195, 169, 226, 130, 172, 255, 254}
\* characters the text inputs are drawn from: 'A', U+00E9, U+20AC, U+FFFD
CharSet == {65, 233, 8364, 65533}
IntSet == {-7, 0, 42}

RECURSIVE SeqsUpTo(_, _)
SeqsUpTo(S, n) ==
    IF n = 0 THEN {<<>>}
    ELSE LET shorter == SeqsUpTo(S, n - 1)
         IN  shorter \cup {Append(s, x) : s \in {t \in shorter : Len(t) = n - 1}, x \in S}

PyBytes(b) == [kind |-> "str", data |-> b]
PyText(t) == [kind |-> "unicode", data |-> t]
PyInt(n) == [kind |-> "int", data |-> <<n>>]
PyObj(id) == [kind |-> "object", data |-> <<id>>]

Ok(v) == [exc |-> "none", val |-> v]
Raise(e, v) == [exc |-> e, val |-> v]

\* ------------------------------------------------- objects passed as val
\* What the __str__ of each modelled object does when str(val) calls it.
ObjStrTable ==
    << Ok(PyBytes(<<65>>)),          \* returns the byte string 'A'
       Ok(PyBytes(<<195, 169>>)),    \* returns UTF-8 encoded bytes of U+00E9
       Ok(PyBytes(<<255>>)),         \* returns a byte that is no UTF-8
       Ok(PyText(<<65>>)),           \* returns the text u'A'
       Ok(PyText(<<233>>)),          \* returns the text u'\xe9'
       Raise("ValueError", PyBytes(<<>>)),   \* raises ValueError
       Raise("TypeError", PyBytes(<<>>)) >>  \* returns a non-string: TypeError

ObjIds == 1..Len(ObjStrTable)
ObjStr(id) == ObjStrTable[id]

ByteInputs == {PyBytes(b) : b \in SeqsUpTo(ByteSet, MaxLen)}
TextInputs == {PyText(t) : t \in SeqsUpTo(CharSet, MaxLen)}
IntInputs == {PyInt(n) : n \in IntSet}
ObjInputs == {PyObj(i) : i \in ObjIds}
Inputs == ByteInputs \cup TextInputs \cup IntInputs \cup ObjInputs

\* ------------------------------------------------------- UTF-8 decoding
\* (b & 0xC0) == 0x80
IsCont(b) == b >= 128 /\ b < 192

\* sequence length announced by a lead byte; 0 is an illegal lead byte
Utf8CodeLength(b) ==
    IF b < 128 THEN 1
    ELSE IF b < 194 THEN 0
    ELSE IF b < 224 THEN 2
    ELSE IF b < 240 THEN 3
    ELSE IF b < 245 THEN 4
    ELSE 0

\* number of continuation bytes of s from index j on
RECURSIVE ContRun(_, _)
ContRun(s, j) ==
    IF j > Len(s) \/ ~IsCont(s[j]) THEN 0 ELSE 1 + ContRun(s, j + 1)

\* one step of the decoder at index i: [out |-> characters produced,
\* used |-> bytes consumed]; an invalid sequence yields `bad`
DecodeAt(s, i, bad) ==
    LET ch == s[i]
        n == Utf8CodeLength(ch)
    IN  IF ch < 128 THEN [out |-> <<ch>>, used |-> 1]
        ELSE IF i + n - 1 > Len(s)
        THEN [out |-> bad, used |-> 1 + ContRun(s, i + 1)]
        ELSE IF n = 0 THEN [out |-> bad, used |-> 1]
        ELSE IF n = 2
        THEN IF ~IsCont(s[i + 1])
             THEN [out |-> bad, used |-> 1]
             ELSE [out |-> <<(ch % 32) * 64 + (s[i + 1] % 64)>>, used |-> 2]
        ELSE IF n = 3
        THEN IF ~IsCont(s[i + 1]) \/ ~IsCont(s[i + 2])
                \/ (ch = 224 /\ s[i + 1] < 160)
             THEN [out |-> bad,
                   used |-> IF IsCont(s[i + 1]) THEN 2 ELSE 1]
             ELSE [out |-> <<(ch % 16) * 4096 + (s[i + 1] % 64) * 64
                               + (s[i + 2] % 64)>>,
                   used |-> 3]
        ELSE IF ~IsCont(s[i + 1]) \/ ~IsCont(s[i + 2]) \/ ~IsCont(s[i + 3])
                \/ (ch = 240 /\ s[i + 1] < 144)
                \/ (ch = 244 /\ s[i + 1] > 143)
             THEN [out |-> bad,
                   used |-> IF ~IsCont(s[i + 1]) THEN 1
                            ELSE IF ~IsCont(s[i + 2]) THEN 2 ELSE 3]
             ELSE [out |-> <<(ch % 8) * 262144 + (s[i + 1] % 64) * 4096
                               + (s[i + 2] % 64) * 64 + (s[i + 3] % 64)>>,
                   used |-> 4]

RECURSIVE DecodeFrom(_, _, _)
DecodeFrom(s, i, bad) ==
    IF i > Len(s) THEN <<>>
    ELSE LET d == DecodeAt(s, i, bad)
         IN  d.out \o DecodeFrom(s, i + d.used, bad)

\* what the error handler named in the call puts for an invalid sequence
DecodeIgnore(h) == <<>>
ErrorsReplace(h) == <<REPLACEMENT>>

\* each byte taken as one character (ISO 8859-1)
DecodeLatin1(b) == b
\* b.decode("UTF-8", errors='replace')
Utf8DecodeReplace(b) == DecodeFrom(b, 1, ErrorsReplace("replace"))

\* unicode(val, "UTF-8", errors='replace')
PyUnicode(v) ==
    IF v.kind = "str" THEN Ok(PyText(Utf8DecodeReplace(v.data)))
    ELSE Raise("TypeError", v)

\* ------------------------------------------------------------- str(val)
IsAsciiLatin1(c) == c < 256
\* what the default codec (ascii) can encode
IsAscii(c) == c < 128

AllAscii(t) == \A k \in 1..Len(t) : IsAscii(t[k])

RECURSIVE Digits(_)
Digits(n) == IF n < 10 THEN <<48 + n>> ELSE Digits(n \div 10) \o <<48 + (n % 10)>>

IntToStr(n) == IF n < 0 THEN <<45>> \o Digits(-n) ELSE Digits(n)

\* a text converted to the native string type through the default codec
EncodeDefault(v) ==
    IF AllAscii(v.data) THEN Ok(PyBytes(v.data))
    ELSE Raise("UnicodeEncodeError", v)

\* str(val)
PyStr(v) ==
    CASE v.kind = "str" -> Ok(v)
      [] v.kind = "unicode" -> EncodeDefault(v)
      [] v.kind = "int" -> Ok(PyBytes(IntToStr(v.data[1])))
      [] v.kind = "object" ->
            LET r == ObjStr(v.data[1])
            IN  IF r.exc # "none" THEN Raise(r.exc, v)
                ELSE IF r.val.kind = "unicode"
                THEN LET e == EncodeDefault(r.val)
                     IN  IF e.exc = "none" THEN e ELSE Raise(e.exc, v)
                ELSE r

\* ------------------------------------------------- the two except clauses
CatchesNothing(e) == FALSE
\* except TypeError:
DecodeCatches(e) == e = "TypeError"
\* except UnicodeEncodeError:
CanonCatches(e) == e = "UnicodeEncodeError"

\* a text with every non-ASCII character put as '?'
AsciiReplaced(v) ==
    IF v.kind = "unicode"
    THEN PyBytes([k \in 1..Len(v.data) |-> IF IsAscii(v.data[k]) THEN v.data[k] ELSE 63])
    ELSE v
\* val after "except UnicodeEncodeError: pass"
CanonFallback(v) == v

KeepVal(r, v) == v
\* val after a successful "val = str(val)"
CanonAssign(r, v) == r.val

\* lines 24-28: [exc, val]
DecodeStage(v) ==
    LET r == PyUnicode(v)
    IN  IF r.exc = "none" THEN Ok(r.val)
        ELSE IF DecodeCatches(r.exc) THEN Ok(v)
        ELSE Raise(r.exc, v)

\* lines 29-32: [exc, val, fell]
CanonStage(v) ==
    LET r == PyStr(v)
    IN  IF r.exc = "none"
        THEN [exc |-> "none", val |-> CanonAssign(r, v), fell |-> FALSE]
        ELSE IF CanonCatches(r.exc)
        THEN [exc |-> "none", val |-> CanonFallback(v), fell |-> TRUE]
        ELSE [exc |-> r.exc, val |-> v, fell |-> FALSE]

\* the whole function, run alone: [exc, val]
StrEncDec(v) ==
    LET d == DecodeStage(v)
    IN  IF d.exc # "none" THEN Raise(d.exc, v)
        ELSE LET c == CanonStage(d.val)
             IN  IF c.exc # "none" THEN Raise(c.exc, v) ELSE Ok(c.val)

\* a == b between two returned values
PyEq(a, b) ==
    IF a.kind = b.kind THEN a.data = b.data
    ELSE IF {a.kind, b.kind} = {"str", "unicode"}
    THEN AllAscii(a.data) /\ AllAscii(b.data) /\ a.data = b.data
    ELSE FALSE

\* ------------------------------------------------- one caller, two calls
VARIABLES pc, input, arg, val, staged, fellback, result, exc, calls, first

\* ------------------------------------------------- concurrent callers
VARIABLES cpc, carg, cval, cres

svars == <<pc, input, arg, val, staged, fellback, result, exc, calls, first>>
cvars == <<cpc, carg, cval, cres>>
vars == <<pc, input, arg, val, staged, fellback, result, exc, calls, first,
          cpc, carg, cval, cres>>

None == PyBytes(<<>>)
Callers == 1..NumCallers

\* arguments the concurrent callers pass
ConcInputs ==
    { PyBytes(<<104, 195, 169>>), PyText(<<104, 233>>), PyBytes(<<255, 254>>),
      PyInt(42), PyText(<<65>>), PyObj(2), PyObj(5), PyObj(6) }

Init ==
    /\ pc = "idle"
    /\ input = None
    /\ arg = None
    /\ val = None
    /\ staged = None
    /\ fellback = FALSE
    /\ result = None
    /\ exc = "none"
    /\ calls = 0
    /\ first = None
    /\ cpc = [c \in Callers |-> "idle"]
    /\ carg = [c \in Callers |-> None]
    /\ cval = [c \in Callers |-> None]
    /\ cres = [c \in Callers |-> Ok(None)]

\* def str_enc_dec(val): the first call passes any input, the second call
\* passes what the first returned
Call ==
    /\ pc \in {"idle", "done"}
    /\ calls < 2
    /\ \E v \in (IF calls = 0 THEN Inputs ELSE {result}) :
          /\ arg' = v
          /\ val' = v
          /\ input' = IF calls = 0 THEN v ELSE input
    /\ first' = result
    /\ calls' = calls + 1
    /\ pc' = "decode"
    /\ staged' = None
    /\ fellback' = FALSE
    /\ UNCHANGED <<result, exc, cvars>>

\* try: val = unicode(val, "UTF-8", errors='replace') except TypeError: pass
Decode ==
    /\ pc = "decode"
    /\ LET d == DecodeStage(val)
       IN  /\ val' = d.val
           /\ staged' = d.val
           /\ exc' = d.exc
           /\ pc' = IF d.exc = "none" THEN "canon" ELSE "raised"
    /\ UNCHANGED <<input, arg, fellback, result, calls, first, cvars>>

\* try: val = str(val) except UnicodeEncodeError: pass
Canonicalize ==
    /\ pc = "canon"
    /\ LET c == CanonStage(val)
       IN  /\ val' = c.val
           /\ fellback' = c.fell
           /\ exc' = c.exc
           /\ pc' = IF c.exc = "none" THEN "return" ELSE "raised"
    /\ UNCHANGED <<input, arg, staged, result, calls, first, cvars>>

\* return val
Return ==
    /\ pc = "return"
    /\ result' = val
    /\ pc' = "done"
    /\ UNCHANGED <<input, arg, val, staged, fellback, exc, calls, first, cvars>>

Next == Call \/ Decode \/ Canonicalize \/ Return

Spec == Init /\ [][Next]_vars

\* one variable written by every caller
SetShared(f, c, v) == [x \in DOMAIN f |-> v]
\* "val = ..." binds the local name val of caller c's own frame
SetLocal(f, c, v) == [f EXCEPT ![c] = v]

\* ---- the same function entered by several callers, steps interleaved;
\* val is a local of each call's own frame
CCall(c) ==
    /\ cpc[c] = "idle"
    /\ \E v \in ConcInputs :
          /\ carg' = [carg EXCEPT ![c] = v]
          /\ cval' = SetLocal(cval, c, v)
    /\ cpc' = [cpc EXCEPT ![c] = "decode"]
    /\ UNCHANGED <<cres, svars>>

CDecode(c) ==
    /\ cpc[c] = "decode"
    /\ LET d == DecodeStage(cval[c])
       IN  /\ cval' = SetLocal(cval, c, d.val)
           /\ cres' = [cres EXCEPT ![c] = IF d.exc = "none" THEN @ ELSE Raise(d.exc, carg[c])]
           /\ cpc' = [cpc EXCEPT ![c] = IF d.exc = "none" THEN "canon" ELSE "raised"]
    /\ UNCHANGED <<carg, svars>>

CCanonicalize(c) ==
    /\ cpc[c] = "canon"
    /\ LET r == CanonStage(cval[c])
       IN  /\ cval' = SetLocal(cval, c, r.val)
           /\ cres' = [cres EXCEPT ![c] = IF r.exc = "none" THEN @ ELSE Raise(r.exc, carg[c])]
           /\ cpc' = [cpc EXCEPT ![c] = IF r.exc = "none" THEN "return" ELSE "raised"]
    /\ UNCHANGED <<carg, svars>>

CReturn(c) ==
    /\ cpc[c] = "return"
    /\ cres' = [cres EXCEPT ![c] = Ok(cval[c])]
    /\ cpc' = [cpc EXCEPT ![c] = "done"]
    /\ UNCHANGED <<carg, cval, svars>>

ConcNext == \E c \in Callers : CCall(c) \/ CDecode(c) \/ CCanonicalize(c) \/ CReturn(c)

SpecConc == Init /\ [][ConcNext]_vars

\* ======================================================= properties
\* Reference definitions used to state the properties: UTF-8 as an encoder
\* (RFC 3629), and validity of a byte string as "is the encoding of a text".
Utf8Encode(c) ==
    IF c < 128 THEN <<c>>
    ELSE IF c < 2048 THEN <<192 + (c \div 64), 128 + (c % 64)>>
    ELSE <<224 + (c \div 4096), 128 + ((c \div 64) % 64), 128 + (c % 64)>>

\* the characters whose encoding is made of ASCII bytes and bytes of ByteSet
RefChars ==
    {c \in 0..MaxCodePoint :
        \A k \in 1..Len(Utf8Encode(c)) : Utf8Encode(c)[k] \in ByteSet \cup 0..127}

EncodedAt(c, s, i) ==
    LET e == Utf8Encode(c)
    IN  /\ i + Len(e) - 1 <= Len(s)
        /\ \A k \in 1..Len(e) : s[i + k - 1] = e[k]

\* the byte string read left to right: the character encoded at each
\* position, or -1 for a byte at which no encoded character starts
RECURSIVE RefScan(_, _)
RefScan(s, i) ==
    IF i > Len(s) THEN <<>>
    ELSE LET m == {c \in RefChars : EncodedAt(c, s, i)}
         IN  IF m = {} THEN <<-1>> \o RefScan(s, i + 1)
             ELSE LET c == CHOOSE x \in m : TRUE
                  IN  <<c>> \o RefScan(s, i + Len(Utf8Encode(c)))

Range(t) == {t[k] : k \in 1..Len(t)}
IsValidUtf8(b) == -1 \notin Range(RefScan(b, 1))

\* every run of equal neighbours m, m, ... of t put as a single m
RECURSIVE Collapse(_, _)
Collapse(t, m) ==
    IF Len(t) < 2 THEN t
    ELSE IF t[1] = m /\ t[2] = m THEN Collapse(Tail(t), m)
    ELSE <<t[1]>> \o Collapse(Tail(t), m)

\* RefScan with each undecodable byte marked by the replacement character
RefMarked(b) ==
    LET r == RefScan(b, 1)
    IN  [k \in 1..Len(r) |-> IF r[k] = -1 THEN REPLACEMENT ELSE r[k]]

TextKinds == {"str", "unicode"}

\* C1 as claimed: no call ever ends by raising.
C1_NeverRaises == pc # "raised"

\* C1 amended: a call ends by raising only when val is an object whose own
\* string conversion raises something other than UnicodeEncodeError, and then
\* that exception is what propagates; for byte strings, texts and integers
\* the call never raises.
C1_RaisesOnlyFromObjectStr ==
    /\ arg.kind \in {"str", "unicode", "int"} => pc # "raised"
    /\ pc = "raised" =>
          /\ arg.kind = "object"
          /\ ObjStr(arg.data[1]).exc \notin {"none", "UnicodeEncodeError"}
          /\ exc = ObjStr(arg.data[1]).exc

C1_Witness ==
    /\ pc = "done"
    /\ calls = 1
    /\ arg = PyText(<<233, 65>>)
    /\ fellback
    /\ exc = "none"

\* C2: a byte string that is valid UTF-8 is returned as exactly the text it
\* encodes (b'A\xc3\xa9' gives u'A\xe9').
C2_ValidUtf8Decoded ==
    (pc = "done" /\ arg.kind = "str" /\ IsValidUtf8(arg.data)) =>
        /\ result.kind \in TextKinds
        /\ result.data = RefScan(arg.data, 1)
        /\ PyEq(result, PyText(RefScan(arg.data, 1)))

C2_Witness ==
    /\ pc = "done"
    /\ arg = PyBytes(<<65, 195, 169>>)
    /\ result = PyText(<<65, 233>>)

\* C3: a byte string that is not valid UTF-8 raises nothing and comes back as
\* a text in which the validly encoded characters stand in their order and
\* each run of undecodable bytes stands as replacement character(s)
\* (b'\xff\xfe' gives two of them).
C3_InvalidReplaced ==
    (arg.kind = "str" /\ ~IsValidUtf8(arg.data)) =>
        /\ pc # "raised"
        /\ pc = "done" =>
              /\ result.kind = "unicode"
              /\ REPLACEMENT \in Range(result.data)
              /\ Len(result.data) <= Len(arg.data)
              /\ Collapse(result.data, REPLACEMENT)
                    = Collapse(RefMarked(arg.data), REPLACEMENT)
              /\ arg.data = <<255, 254>> => result.data = <<REPLACEMENT, REPLACEMENT>>

C3_Witness ==
    /\ pc = "done"
    /\ arg = PyBytes(<<169, 65, 255>>)
    /\ result = PyText(<<REPLACEMENT, 65, REPLACEMENT>>)

\* C4: a text input passes the decode stage untouched and is returned equal
\* to itself, character for character.
C4_TextUnchanged ==
    arg.kind = "unicode" =>
        /\ pc \in {"canon", "return", "done"} => staged = arg
        /\ pc = "done" => (result.data = arg.data /\ result.kind \in TextKinds)

C4_Witness ==
    /\ pc = "done"
    /\ calls = 1
    /\ arg = PyText(<<65, 8364>>)
    /\ result = arg

\* C5 as claimed: applying the function to its own result gives that result.
C5_Idempotent == (pc = "done" /\ calls = 2) => PyEq(result, first)

\* an object whose str() is a byte string with a non-ASCII byte
StrIsNonAsciiBytes(v) ==
    /\ v.kind = "object"
    /\ ObjStr(v.data[1]).exc = "none"
    /\ ObjStr(v.data[1]).val.kind = "str"
    /\ \E k \in 1..Len(ObjStr(v.data[1]).val.data) : ObjStr(v.data[1]).val.data[k] >= 128

\* C5 amended: the second application raises nothing, and gives the first
\* result again for every byte string, text and integer and for every object
\* except one whose str() is a byte string holding a non-ASCII byte.
C5_IdempotentButNonAsciiStr ==
    calls = 2 =>
        /\ pc # "raised"
        /\ (pc = "done" /\ ~StrIsNonAsciiBytes(input)) => (result = first /\ PyEq(result, first))

C5_Witness ==
    /\ pc = "done"
    /\ calls = 2
    /\ input = PyBytes(<<255, 65>>)
    /\ first = PyText(<<REPLACEMENT, 65>>)
    /\ result = first

\* C6: what is returned is of a string type unless the canonicalization fell
\* back, in which case it is the decode stage's value whatever its type.
C6_TextualUnlessFallback ==
    pc = "done" =>
        /\ ~fellback => result.kind \in TextKinds
        /\ fellback => result = staged

C6_Witness ==
    /\ pc = "done"
    /\ ~fellback
    /\ arg = PyInt(-7)
    /\ result.kind = "str"

\* C7: an integer (or other object that str() can print) skips the decode
\* stage and comes back as its printed form; 42 gives '42'.
C7_ObjectPrinted ==
    /\ arg.kind = "int" => pc # "raised"
    /\ (pc = "done" /\ arg.kind \in {"int", "object"} /\ PyStr(arg).exc = "none") =>
          /\ staged = arg
          /\ result = PyStr(arg).val
          /\ result.kind = "str"
    /\ (pc = "done" /\ arg = PyInt(42)) => result = PyBytes(<<52, 50>>)
    /\ (pc = "done" /\ arg = PyInt(-7)) => result = PyBytes(<<45, 55>>)
    /\ (pc = "done" /\ arg = PyInt(0)) => result = PyBytes(<<48>>)

C7_Witness ==
    /\ pc = "done"
    /\ calls = 1
    /\ arg = PyInt(42)
    /\ result = PyBytes(<<52, 50>>)

\* C8: when str(val) fails with UnicodeEncodeError the value of the decode
\* stage is returned as it was.
C8_FallbackReturnsStaged ==
    (pc \in {"return", "done"} /\ PyStr(staged).exc = "UnicodeEncodeError") =>
        /\ fellback
        /\ val = staged
        /\ pc = "done" => result = staged

C8_Witness ==
    /\ pc = "done"
    /\ arg = PyBytes(<<195, 169>>)
    /\ staged = PyText(<<233>>)
    /\ fellback
    /\ result = PyText(<<233>>)

\* each call in progress or ended stands as it does when run alone
EndsAsAlone ==
    \A c \in Callers :
        /\ cpc[c] = "done" => cres[c] = StrEncDec(carg[c])
        /\ cpc[c] = "raised" => cres[c].exc = StrEncDec(carg[c]).exc
        /\ cpc[c] = "return" => Ok(cval[c]) = StrEncDec(carg[c])

\* no step of any caller changes the argument of a call that has begun
ArgsKept == \A c \in Callers : cpc[c] # "idle" => carg'[c] = carg[c]

\* C9: with the calls of several callers interleaved, each call ends as it
\* ends when run alone on its argument, and the argument it was passed is
\* left as it was.
C9_ConcurrentAsAlone == []EndsAsAlone /\ [][ArgsKept]_vars

C9_Witness ==
    /\ cpc[1] = "done"
    /\ cpc[2] = "canon"
    /\ carg[1] = PyBytes(<<104, 195, 169>>)
    /\ carg[2] = PyBytes(<<255, 254>>)
    /\ cres[1] = Ok(PyText(<<104, 233>>))

\* C10: for a byte string or text input the fallback is taken exactly when
\* the decode stage's value holds a non-ASCII character (so whenever it holds
\* a replacement character); an ASCII-only value is returned converted.
C10_FallbackIffNonAscii ==
    (pc = "done" /\ arg.kind \in {"str", "unicode"}) =>
        /\ fellback <=> (\E k \in 1..Len(staged.data) : staged.data[k] >= 128)
        /\ REPLACEMENT \in Range(staged.data) => fellback
        /\ fellback => result = staged /\ result.kind = "unicode"
        /\ ~fellback => result = PyBytes(staged.data)

C10_Witness ==
    /\ pc = "done"
    /\ arg = PyBytes(<<255>>)
    /\ fellback
    /\ result = PyText(<<REPLACEMENT>>)

====
